---- MODULE Spec2Model ----
(***************************************************************************)
(* Streaming chat client of the "sociology masters" front end:            *)
(*   - APIService.streamMessage  (the SSE stream decoder),                 *)
(*   - ChatPage                  (per-master conversation store and the    *)
(*                                send / stream / commit controller),      *)
(*   - SettingsPage              (the "clear all conversations" handler),  *)
(*   - App.navigateTo and Modal.confirm.                                   *)
(*                                                                         *)
(* Text is modelled as a sequence of one-character strings, so that        *)
(* split('\n'), startsWith('data: '), slice(6) and trim() are computed as  *)
(* the code computes them and a network chunk may end anywhere.            *)
(*                                                                         *)
(* JSON envelopes travel in a compact wire encoding (see JSONParse):       *)
(*   {cA}   {"result":{"delta":{"content":"A"},"finish_reason":null}}      *)
(*   {rc}   {"result":{"delta":{"role":"assistant","content":""}, ...}}    *)
(*   {cBf}  {"result":{"delta":{"content":"B"},"finish_reason":"stop"}}    *)
(*   {u}    {"usage":{...}}              (no result)                       *)
(*   {r}    a delta without content                                        *)
(*   anything else is not JSON and makes JSON.parse throw.                 *)
(***************************************************************************)
EXTENDS Integers, Sequences, FiniteSets, TLC

(***************************************************************************)
(* Bounds of the model                                                     *)
(***************************************************************************)
\* number of accepted submits explored in one behaviour
MaxSubmits == 2
\* longest wire script (number of events) of the decoder specification
MaxItems == 2
\* the source may close up to this many characters before the end of the text
MaxCut == 2
\* size of the network chunks explored together with the whole controller
CtlChunk == 9

(***************************************************************************)
(* Characters and strings                                                  *)
(***************************************************************************)
NL == "\n"
Whitespace == {" ", NL, "\r", "\t"}

\* 'data: '
DataPrefix == <<"d", "a", "t", "a", ":", " ">>
\* '[DONE]'
DoneSentinel == <<"[", "D", "O", "N", "E", "]">>

\* line.slice(6): the offset is the length of 'data: '
PrefixLen == 6

RECURSIVE TrimLeft(_)
TrimLeft(s) ==
  IF s # <<>> /\ Head(s) \in Whitespace THEN TrimLeft(Tail(s)) ELSE s

RECURSIVE TrimRight(_)
TrimRight(s) ==
  IF s # <<>> /\ s[Len(s)] \in Whitespace
  THEN TrimRight(SubSeq(s, 1, Len(s) - 1))
  ELSE s

\* String.prototype.trim
Trim(s) == TrimRight(TrimLeft(s))

\* String.prototype.startsWith
StartsWith(s, p) == Len(s) >= Len(p) /\ SubSeq(s, 1, Len(p)) = p

\* String.prototype.slice(n), n >= 0
Slice(s, n) == IF n >= Len(s) THEN <<>> ELSE SubSeq(s, n + 1, Len(s))

\* String.prototype.split('\n'): always at least one element; the last one
\* is the text after the last '\n' (empty when the text ends with '\n')
RECURSIVE SplitFrom(_, _, _)
SplitFrom(s, i, cur) ==
  IF i > Len(s) THEN <<cur>>
  ELSE IF s[i] = NL THEN <<cur>> \o SplitFrom(s, i + 1, <<>>)
  ELSE SplitFrom(s, i + 1, Append(cur, s[i]))

SplitLines(s) == SplitFrom(s, 1, <<>>)

(***************************************************************************)
(* JSON.parse on the compact envelope encoding.                            *)
(* Grammar:  '{' ['r'] ['c' {'A'|'B'}] ['f'] ['u'] '}'                     *)
(***************************************************************************)
ContentChars == {"A", "B"}

RECURSIVE TakeContent(_)
TakeContent(s) ==
  IF s # <<>> /\ Head(s) \in ContentChars
  THEN <<Head(s)>> \o TakeContent(Tail(s))
  ELSE <<>>

NoJSON == [ok |-> FALSE, hasDelta |-> FALSE, role |-> FALSE, hasContent |-> FALSE,
           content |-> <<>>, finish |-> FALSE, usage |-> FALSE]

\* mutant: an envelope is accepted without its closing brace, and whatever
\* content characters follow its second character are its delta content
JSONParseLenient(data) ==
  IF data = <<>> \/ Head(data) # "{" THEN NoJSON
  ELSE [ok |-> TRUE, hasDelta |-> TRUE, role |-> FALSE, hasContent |-> TRUE,
        content |-> TakeContent(Slice(data, 2)), finish |-> FALSE,
        usage |-> FALSE]

JSONParse(data) ==
  IF Len(data) < 2 \/ data[1] # "{" \/ data[Len(data)] # "}" THEN NoJSON
  ELSE
    LET b0 == SubSeq(data, 2, Len(data) - 1)
        hasR == b0 # <<>> /\ Head(b0) = "r"
        b1 == IF hasR THEN Tail(b0) ELSE b0
        hasC == b1 # <<>> /\ Head(b1) = "c"
        cont == IF hasC THEN TakeContent(Tail(b1)) ELSE <<>>
        b2 == IF hasC THEN Slice(b1, 1 + Len(cont)) ELSE b1
        hasF == b2 # <<>> /\ Head(b2) = "f"
        b3 == IF hasF THEN Tail(b2) ELSE b2
        hasU == b3 # <<>> /\ Head(b3) = "u"
        b4 == IF hasU THEN Tail(b3) ELSE b3
    IN  IF b4 # <<>> THEN NoJSON
        ELSE [ok |-> TRUE, hasDelta |-> hasR \/ hasC, role |-> hasR,
              hasContent |-> hasC, content |-> cont, finish |-> hasF,
              usage |-> hasU]

\* mutant: a delta is surfaced whether or not it has a content
TruthyContentLoose(json) == json.ok /\ json.hasDelta

\* mutant: a usage envelope is surfaced like a delta
TruthyContentOrUsage(json) ==
  json.ok /\ (json.usage \/ (json.hasDelta /\ json.hasContent /\ json.content # <<>>))

\* json.result?.delta?.content, as a truthy test: a non-empty string
TruthyContent(json) == json.ok /\ json.hasDelta /\ json.hasContent /\ json.content # <<>>

(***************************************************************************)
(* Wire scripts: what the remote service sends for one request.  A script  *)
(* is a sequence of events; each is rendered as one line followed by an    *)
(* empty separator line (docs/api: "data: <json>\n\n").                    *)
(***************************************************************************)
ItemLine(item) ==
  CASE item = "role"    -> DataPrefix \o <<"{", "r", "c", "}">>
    [] item = "deltaA"  -> DataPrefix \o <<"{", "c", "A", "}">>
    [] item = "deltaB"  -> DataPrefix \o <<"{", "c", "B", "}">>
    [] item = "empty"   -> DataPrefix \o <<"{", "c", "}">>
    [] item = "finishB" -> DataPrefix \o <<"{", "c", "B", "f", "}">>
    [] item = "usage"   -> DataPrefix \o <<"{", "u", "}">>
    [] item = "nocontent" -> DataPrefix \o <<"{", "r", "}">>
    [] item = "done"    -> DataPrefix \o DoneSentinel
    [] item = "doneCR"  -> DataPrefix \o <<" ">> \o DoneSentinel \o <<"\r">>
    [] item = "bad"     -> DataPrefix \o <<"{", "c", "A">>
    [] item = "comment" -> <<":", "A">>
    [] item = "nospace" -> <<"d", "a", "t", "a", ":", "{", "c", "A", "}">>
    [] item = "indent"  -> <<" ">> \o DataPrefix \o <<"{", "c", "A", "}">>
    [] OTHER            -> <<>>

\* the content fragment a well-formed delta event carries
ItemContent(item) ==
  CASE item = "deltaA"  -> <<"A">>
    [] item = "deltaB"  -> <<"B">>
    [] item = "finishB" -> <<"B">>
    [] OTHER            -> <<>>

IsDone(item) == item \in {"done", "doneCR"}

RECURSIVE Render(_)
Render(script) ==
  IF script = <<>> THEN <<>>
  ELSE ItemLine(Head(script)) \o <<NL, NL>> \o Render(Tail(script))

\* the text the source delivers before it closes: the rendered script
\* without its last `cut` characters
WireText(script, cut) ==
  LET t == Render(script)
  IN  IF cut >= Len(t) THEN <<>> ELSE SubSeq(t, 1, Len(t) - cut)

(***************************************************************************)
(* APIService.streamMessage: the body of the read loop.                    *)
(* A decoder state is [buffer, fullResponse, events, done]: the carry-over *)
(* buffer, the text accumulated by the onChunk closure of sendMessage, the *)
(* log of callbacks made so far, and whether onComplete was reached.       *)
(***************************************************************************)
\* mutant: a delta with a finish_reason ends the stream like '[DONE]'
LineEventStopOnFinish(line) ==
  IF Trim(line) # <<>> /\ StartsWith(line, DataPrefix)
  THEN LET data == Trim(Slice(line, PrefixLen))
       IN  IF data = DoneSentinel THEN [kind |-> "done", content |-> <<>>]
           ELSE LET json == JSONParse(data)
                IN  IF json.ok /\ json.finish
                    THEN [kind |-> "done", content |-> <<>>]
                    ELSE IF TruthyContent(json)
                         THEN [kind |-> "chunk", content |-> json.content]
                         ELSE [kind |-> "skip", content |-> <<>>]
  ELSE [kind |-> "skip", content |-> <<>>]

\* mutant: the prefix is looked for after trimming (line.trim().startsWith)
\* and may lack its space
LineEventTrimFirst(line) ==
  LET t == Trim(line)
  IN  IF StartsWith(t, DataPrefix) \/ StartsWith(t, SubSeq(DataPrefix, 1, 5))
      THEN LET data == Trim(Slice(t, IF StartsWith(t, DataPrefix) THEN PrefixLen ELSE 5))
           IN  IF data = DoneSentinel THEN [kind |-> "done", content |-> <<>>]
               ELSE LET json == JSONParse(data)
                    IN  IF TruthyContent(json)
                        THEN [kind |-> "chunk", content |-> json.content]
                        ELSE [kind |-> "skip", content |-> <<>>]
      ELSE [kind |-> "skip", content |-> <<>>]

\* what one complete line makes the loop do
LineEvent(line) ==
  IF Trim(line) # <<>> /\ StartsWith(line, DataPrefix)
  THEN LET data == Trim(Slice(line, PrefixLen))
       IN  IF data = DoneSentinel THEN [kind |-> "done", content |-> <<>>]
           ELSE LET json == JSONParse(data)
                IN  IF TruthyContent(json)
                    THEN [kind |-> "chunk", content |-> json.content]
                    ELSE [kind |-> "skip", content |-> <<>>]
  ELSE [kind |-> "skip", content |-> <<>>]

\* mutant: fullResponse = content + fullResponse
OnChunkPrepend(d, content) ==
  [d EXCEPT !.fullResponse = content \o @,
            !.events = Append(@, <<"chunk", content>>)]

\* mutant: fullResponse = content, the bubble shows the last fragment only
OnChunkReplace(d, content) ==
  [d EXCEPT !.fullResponse = content,
            !.events = Append(@, <<"chunk", content>>)]

\* sendMessage's onChunk closure: fullResponse += content
OnChunk(d, content) ==
  [d EXCEPT !.fullResponse = @ \o content,
            !.events = Append(@, <<"chunk", content>>)]

\* mutant: '[DONE]' is noted but the remaining lines are still handled
RECURSIVE ForLinesNoStop(_, _)
ForLinesNoStop(lines, d) ==
  IF lines = <<>> THEN d
  ELSE LET ev == LineEvent(Head(lines))
       IN  IF ev.kind = "done"
           THEN ForLinesNoStop(Tail(lines), [d EXCEPT !.done = TRUE])
           ELSE IF ev.kind = "chunk"
                THEN ForLinesNoStop(Tail(lines), OnChunk(d, ev.content))
                ELSE ForLinesNoStop(Tail(lines), d)

\* for (const line of lines) { ... }, left at once on '[DONE]'
RECURSIVE ForLines(_, _)
ForLines(lines, d) ==
  IF lines = <<>> THEN d
  ELSE LET ev == LineEvent(Head(lines))
       IN  IF ev.kind = "done" THEN [d EXCEPT !.done = TRUE]
           ELSE IF ev.kind = "chunk"
                THEN ForLines(Tail(lines), OnChunk(d, ev.content))
                ELSE ForLines(Tail(lines), d)

\* mutant: the carry-over buffer is forgotten (lines = chunk.split('\n'))
FeedNoCarry(d, chunk) ==
  LET lines == SplitLines(chunk)
      n == Len(lines)
  IN  ForLines(SubSeq(lines, 1, n - 1), [d EXCEPT !.buffer = lines[n]])

\* buffer += chunk; lines = buffer.split('\n'); buffer = lines.pop(); loop
Feed(d, chunk) ==
  LET lines == SplitLines(d.buffer \o chunk)
      n == Len(lines)
  IN  ForLines(SubSeq(lines, 1, n - 1), [d EXCEPT !.buffer = lines[n]])

NewDecoder == [buffer |-> <<>>, fullResponse |-> <<>>, events |-> <<>>, done |-> FALSE]

(***************************************************************************)
(* ChatPage: the conversation store                                        *)
(***************************************************************************)
\* MASTERS: the configured masters (the second entry of the configuration
\* template switched on, so that a master can be switched to)
MASTERS == {"tocqueville", "weber"}

Message(role, content) == [role |-> role, content |-> content]

\* localStorage['masterConversations']: no item, or an item with a value
Absent == [has |-> FALSE, value |-> {}]
Stored(v) == [has |-> TRUE, value |-> v]

\* mutant: keys with an empty history are left out of the stored text
StringifyNonEmpty(conv) == {<<m, conv[m]>> : m \in {k \in DOMAIN conv : conv[k] # <<>>}}

\* JSON.stringify(this.conversations): one entry per key of the object
Stringify(conv) == {<<m, conv[m]>> : m \in DOMAIN conv}

\* JSON.parse of a stored value: the object with the stored keys
ParseStored(v) == [m \in {e[1] : e \in v} |-> (CHOOSE e \in v : e[1] = m)[2]]

\* getCurrentMessages: this.conversations[this.currentMaster] || []
GetCurrentMessages(conv, master) ==
  IF master \in DOMAIN conv THEN conv[master] ELSE <<>>

\* saveConversations: setItem may throw (quota, storage disabled); the
\* error is caught and logged, the stored value stays what it was
SaveConversations(conv, st, writeOk) ==
  IF writeOk THEN Stored(Stringify(conv)) ELSE st

\* mutant: unshift instead of push
AddMessagePrepend(conv, master, role, content) ==
  LET c1 == IF master \in DOMAIN conv THEN conv ELSE conv @@ (master :> <<>>)
  IN  [c1 EXCEPT ![master] = <<Message(role, content)>> \o @]

\* addMessageToConversation, without the save
AddMessageToConversation(conv, master, role, content) ==
  LET c1 == IF master \in DOMAIN conv THEN conv ELSE conv @@ (master :> <<>>)
  IN  [c1 EXCEPT ![master] = Append(@, Message(role, content))]

\* mutant: only the entry of the constructor's currentMaster is taken over
LoadOnlyCurrent(st, master) ==
  LET c0 == IF st.has THEN ParseStored(st.value) ELSE <<>>
  IN  master :> (IF master \in DOMAIN c0 THEN c0[master] ELSE <<>>)

\* loadConversations on a stored value, for the constructor's currentMaster
LoadConversations(st, master) ==
  LET c0 == IF st.has THEN ParseStored(st.value) ELSE <<>>
  IN  IF master \in DOMAIN c0 THEN c0 ELSE c0 @@ (master :> <<>>)

(***************************************************************************)
(* State                                                                   *)
(***************************************************************************)
VARIABLES
  currentMaster,   \* ChatPage.currentMaster
  conversations,   \* ChatPage.conversations: master -> sequence of messages
  isStreaming,     \* ChatPage.isStreaming
  storage,         \* localStorage['masterConversations']
  page,            \* App.currentPage
  modal,           \* the dialog that is open: "none", "clear", "clearAll",
                   \* "feedback"
  calls,           \* the pending api.streamMessage calls, each with the
                   \* locals of its sendMessage closure
  lastTurn,        \* history: how the last streamMessage call ended
  lastCall,        \* history: the last user-interface handler that ran
  appended,        \* history: per master, the messages loaded by the
                   \* constructor and appended since, since its history was
                   \* last empty
  submits,         \* history: the number of accepted submits so far
  feedback,        \* the FeedbackModal: the master whose history array its
                   \* messages field refers to, (history) what that array
                   \* held when it was handed over, its rating, whether its
                   \* submit button is disabled for a submitFeedback call in
                   \* flight ("pending") or not ("idle"), and the rating
                   \* that call sent
  localConversations,  \* localStorage['conversations']
  localFeedbacks       \* localStorage['feedbacks']

vars == <<currentMaster, conversations, isStreaming, storage, page, modal,
          calls, lastTurn, lastCall, appended, submits, feedback,
                 localConversations, localFeedbacks>>

Pages == {"chat", "settings", "about"}
\* window.location.hash values; "bogus" stands for any unknown route
Routes == Pages \cup {"bogus"}

NoTurn == [how |-> "none", outcome |-> "none", fullResponse |-> <<>>, events |-> <<>>,
           script |-> <<>>, reader |-> "none"]
NoFeedback == [master |-> "none", taken |-> <<>>, rating |-> 0,
               submit |-> "idle", sent |-> 0]
NoCall == [op |-> "none", outcome |-> "none", blank |-> FALSE, busy |-> FALSE,
           signal |-> "none"]

\* what the user may type into the composer
Inputs == {<<>>, <<" ">>, <<"q">>, <<" ", "q", NL>>}

Init ==
  /\ currentMaster = "tocqueville"
  /\ storage = Absent
  /\ conversations = LoadConversations(Absent, "tocqueville")
  /\ isStreaming = FALSE
  /\ page = "chat"
  /\ modal = "none"
  /\ calls = <<>>
  /\ lastTurn = NoTurn
  /\ lastCall = NoCall
  /\ appended = [m \in MASTERS |-> <<>>]
  /\ submits = 0
  /\ feedback = NoFeedback
  /\ localConversations = Absent
  /\ localFeedbacks = Absent

(***************************************************************************)
(* ChatPage.sendMessage up to the first await of api.streamMessage.        *)
(* `scripts` and `cuts` are what the remote service may answer; `cap`      *)
(* bounds the number of accepted submits.                                  *)
(***************************************************************************)
\* the temperature sendMessage passes to streamMessage: the literal 0.5
Temperature == "0.5"

\* mutant: the messages of the request are read before the user message is
\* appended
NewCallStale(conv, master, content, script, cut) ==
  [phase |-> "fetch",
   master |-> master,
   pre |-> GetCurrentMessages(conv, master),
   user |-> content,
   request |-> [character |-> master,
                messages |-> GetCurrentMessages(conv, master),
                stream |-> TRUE,
                temperature |-> Temperature],
   script |-> script,
   cut |-> cut,
   rest |-> WireText(script, cut),
   dec |-> NewDecoder]

\* the locals of an accepted sendMessage and of its streamMessage call; the
\* request is the body streamMessage posts before its first await
NewCall(conv, master, content, script, cut) ==
  [phase |-> "fetch",
   master |-> master,
   pre |-> GetCurrentMessages(conv, master),
   user |-> content,
   request |-> [character |-> master,
                messages |-> AddMessageToConversation(conv, master, "user", content)[master],
                stream |-> TRUE,
                temperature |-> Temperature],
   script |-> script,
   cut |-> cut,
   rest |-> WireText(script, cut),
   dec |-> NewDecoder]

\* mutant: isStreaming is not checked
SendMessageNoBusyCheck(input, scripts, cuts, cap) ==
  LET content == Trim(input)
  IN
  /\ page = "chat"
  /\ IF content = <<>>
     THEN /\ lastCall' = [op |-> "sendMessage", outcome |-> "ignored",
                          blank |-> content = <<>>, busy |-> isStreaming,
                          signal |-> "none"]
          /\ UNCHANGED <<currentMaster, conversations, isStreaming, storage,
                         page, modal, calls, lastTurn, appended, submits, feedback,
                 localConversations, localFeedbacks>>
     ELSE /\ submits < cap
          /\ submits' = submits + 1
          /\ conversations' =
               AddMessageToConversation(conversations, currentMaster, "user", content)
          /\ appended' = [appended EXCEPT
                            ![currentMaster] = Append(@, Message("user", content))]
          /\ \E writeOk \in BOOLEAN :
               storage' = SaveConversations(conversations', storage, writeOk)
          /\ isStreaming' = TRUE
          /\ \E script \in scripts, cut \in cuts :
               calls' = Append(calls,
                 NewCall(conversations, currentMaster, content, script, cut))
          /\ lastCall' = [op |-> "sendMessage", outcome |-> "accepted",
                          blank |-> FALSE, busy |-> FALSE, signal |-> "none"]
          /\ lastTurn' = NoTurn
          /\ UNCHANGED <<currentMaster, page, modal, feedback,
                 localConversations, localFeedbacks>>

\* mutant: the user message is appended before isStreaming is checked
SendMessageLateCheck(input, scripts, cuts, cap) ==
  LET content == Trim(input)
  IN
  /\ page = "chat"
  /\ content # <<>>
  /\ conversations' =
       AddMessageToConversation(conversations, currentMaster, "user", content)
  /\ appended' = [appended EXCEPT
                    ![currentMaster] = Append(@, Message("user", content))]
  /\ \E writeOk \in BOOLEAN :
       storage' = SaveConversations(conversations', storage, writeOk)
  /\ IF isStreaming
     THEN /\ lastCall' = [op |-> "sendMessage", outcome |-> "ignored",
                          blank |-> FALSE, busy |-> TRUE, signal |-> "none"]
          /\ UNCHANGED <<currentMaster, isStreaming, page, modal, calls,
                         lastTurn, submits, feedback,
                 localConversations, localFeedbacks>>
     ELSE /\ submits < cap
          /\ submits' = submits + 1
          /\ isStreaming' = TRUE
          /\ \E script \in scripts, cut \in cuts :
               calls' = Append(calls,
                 NewCall(conversations, currentMaster, content, script, cut))
          /\ lastCall' = [op |-> "sendMessage", outcome |-> "accepted",
                          blank |-> FALSE, busy |-> FALSE, signal |-> "none"]
          /\ lastTurn' = NoTurn
          /\ UNCHANGED <<currentMaster, page, modal, feedback,
                 localConversations, localFeedbacks>>

\* mutant: const content = input.value, without trim()
SendMessageNoTrim(input, scripts, cuts, cap) ==
  LET content == input
  IN
  /\ page = "chat"
  /\ IF content = <<>> \/ isStreaming
     THEN /\ lastCall' = [op |-> "sendMessage", outcome |-> "ignored",
                          blank |-> content = <<>>, busy |-> isStreaming,
                          signal |-> "none"]
          /\ UNCHANGED <<currentMaster, conversations, isStreaming, storage,
                         page, modal, calls, lastTurn, appended, submits, feedback,
                 localConversations, localFeedbacks>>
     ELSE /\ submits < cap
          /\ submits' = submits + 1
          /\ conversations' =
               AddMessageToConversation(conversations, currentMaster, "user", content)
          /\ appended' = [appended EXCEPT
                            ![currentMaster] = Append(@, Message("user", content))]
          /\ \E writeOk \in BOOLEAN :
               storage' = SaveConversations(conversations', storage, writeOk)
          /\ isStreaming' = TRUE
          /\ \E script \in scripts, cut \in cuts :
               calls' = Append(calls,
                 NewCall(conversations, currentMaster, content, script, cut))
          /\ lastCall' = [op |-> "sendMessage", outcome |-> "accepted",
                          blank |-> FALSE, busy |-> FALSE, signal |-> "none"]
          /\ lastTurn' = NoTurn
          /\ UNCHANGED <<currentMaster, page, modal, feedback,
                 localConversations, localFeedbacks>>

SendMessage(input, scripts, cuts, cap) ==
  LET content == Trim(input)
  IN
  /\ page = "chat"
  /\ IF content = <<>> \/ isStreaming
     THEN /\ lastCall' = [op |-> "sendMessage", outcome |-> "ignored",
                          blank |-> content = <<>>, busy |-> isStreaming,
                          signal |-> "none"]
          /\ UNCHANGED <<currentMaster, conversations, isStreaming, storage,
                         page, modal, calls, lastTurn, appended, submits, feedback,
                 localConversations, localFeedbacks>>
     ELSE /\ submits < cap
          /\ submits' = submits + 1
          /\ conversations' =
               AddMessageToConversation(conversations, currentMaster, "user", content)
          /\ appended' = [appended EXCEPT
                            ![currentMaster] = Append(@, Message("user", content))]
          /\ \E writeOk \in BOOLEAN :
               storage' = SaveConversations(conversations', storage, writeOk)
          /\ isStreaming' = TRUE
          /\ \E script \in scripts, cut \in cuts :
               calls' = Append(calls,
                 NewCall(conversations, currentMaster, content, script, cut))
          /\ lastCall' = [op |-> "sendMessage", outcome |-> "accepted",
                          blank |-> FALSE, busy |-> FALSE, signal |-> "none"]
          /\ lastTurn' = NoTurn
          /\ UNCHANGED <<currentMaster, page, modal, feedback,
                 localConversations, localFeedbacks>>

(***************************************************************************)
(* The callbacks sendMessage hands to streamMessage.  `how` records what    *)
(* the source did: "sentinel" ([DONE] decoded), "closed" (read() reported  *)
(* done), "failed" (fetch or read() rejected, or an HTTP error status);    *)
(* `script` is what the source had to send, `reader` the state in which    *)
(* the body reader is left.                                                *)
(***************************************************************************)
RemoveAt(q, i) == SubSeq(q, 1, i - 1) \o SubSeq(q, i + 1, Len(q))

\* response.body.getReader() when streamMessage is left through onComplete:
\* after read() reported done the stream is consumed ("done"); after
\* '[DONE]' the function returns with the reader as it is ("open": it was
\* not read to the end, and there is no reader.cancel() or releaseLock())
ReaderAfterComplete(how) == IF how = "closed" THEN "done" ELSE "open"

\* ... and through the catch: a rejected read() leaves the stream errored;
\* before getReader() there is no reader (the body of an error response is
\* consumed by response.json())
ReaderAfterError(phase) == IF phase = "read" THEN "errored" ELSE "none"

\* mutant: a turn without accumulated text is finalized without a message
OnCompleteSkipEmpty(i, d, how) ==
  /\ conversations' =
       IF d.fullResponse = <<>> THEN conversations
       ELSE AddMessageToConversation(conversations, currentMaster, "assistant", d.fullResponse)
  /\ appended' =
       IF d.fullResponse = <<>> THEN appended
       ELSE [appended EXCEPT
               ![currentMaster] = Append(@, Message("assistant", d.fullResponse))]
  /\ \E writeOk \in BOOLEAN :
       storage' = SaveConversations(conversations', storage, writeOk)
  /\ isStreaming' = FALSE
  /\ calls' = RemoveAt(calls, i)
  /\ lastTurn' = [how |-> how,
                  outcome |-> "complete",
                  fullResponse |-> d.fullResponse,
                  events |-> Append(d.events, <<"complete">>),
                  script |-> calls[i].script,
                  reader |-> ReaderAfterComplete(how)]
  /\ UNCHANGED <<currentMaster, page, modal, lastCall, submits, feedback,
                 localConversations, localFeedbacks>>

\* mutant: onComplete is called but the read loop is not left
OnCompleteKeepCall(i, d, how) ==
  /\ conversations' =
       AddMessageToConversation(conversations, currentMaster, "assistant", d.fullResponse)
  /\ appended' = [appended EXCEPT
                    ![currentMaster] = Append(@, Message("assistant", d.fullResponse))]
  /\ \E writeOk \in BOOLEAN :
       storage' = SaveConversations(conversations', storage, writeOk)
  /\ isStreaming' = FALSE
  /\ calls' = [calls EXCEPT ![i].dec = d]
  /\ lastTurn' = [how |-> how,
                  outcome |-> "complete",
                  fullResponse |-> d.fullResponse,
                  events |-> Append(d.events, <<"complete">>),
                  script |-> calls[i].script,
                  reader |-> ReaderAfterComplete(how)]
  /\ UNCHANGED <<currentMaster, page, modal, lastCall, submits, feedback,
                 localConversations, localFeedbacks>>

\* onComplete: commit fullResponse as an assistant message
OnComplete(i, d, how) ==
  /\ conversations' =
       AddMessageToConversation(conversations, currentMaster, "assistant", d.fullResponse)
  /\ appended' = [appended EXCEPT
                    ![currentMaster] = Append(@, Message("assistant", d.fullResponse))]
  /\ \E writeOk \in BOOLEAN :
       storage' = SaveConversations(conversations', storage, writeOk)
  /\ isStreaming' = FALSE
  /\ calls' = RemoveAt(calls, i)
  /\ lastTurn' = [how |-> how,
                  outcome |-> "complete",
                  fullResponse |-> d.fullResponse,
                  events |-> Append(d.events, <<"complete">>),
                  script |-> calls[i].script,
                  reader |-> ReaderAfterComplete(how)]
  /\ UNCHANGED <<currentMaster, page, modal, lastCall, submits, feedback,
                 localConversations, localFeedbacks>>

\* mutant: the error is shown but isStreaming is not reset
OnErrorStuck(i, how) ==
  /\ isStreaming' = isStreaming
  /\ calls' = RemoveAt(calls, i)
  /\ lastTurn' = [how |-> how,
                  outcome |-> "error",
                  fullResponse |-> calls[i].dec.fullResponse,
                  events |-> Append(calls[i].dec.events, <<"error">>),
                  script |-> calls[i].script,
                  reader |-> ReaderAfterError(calls[i].phase)]
  /\ UNCHANGED <<currentMaster, conversations, storage, page, modal, lastCall,
                 appended, submits, feedback,
                 localConversations, localFeedbacks>>

\* onError: show the error, release the controller
OnError(i, how) ==
  /\ isStreaming' = FALSE
  /\ calls' = RemoveAt(calls, i)
  /\ lastTurn' = [how |-> how,
                  outcome |-> "error",
                  fullResponse |-> calls[i].dec.fullResponse,
                  events |-> Append(calls[i].dec.events, <<"error">>),
                  script |-> calls[i].script,
                  reader |-> ReaderAfterError(calls[i].phase)]
  /\ UNCHANGED <<currentMaster, conversations, storage, page, modal, lastCall,
                 appended, submits, feedback,
                 localConversations, localFeedbacks>>

(***************************************************************************)
(* APIService.streamMessage, one step per await                            *)
(***************************************************************************)
\* await fetch(...) resolves with response.ok
FetchOk(i) ==
  /\ calls[i].phase = "fetch"
  /\ calls' = [calls EXCEPT ![i].phase = "read"]
  /\ UNCHANGED <<currentMaster, conversations, isStreaming, storage, page,
                 modal, lastTurn, lastCall, appended, submits, feedback,
                 localConversations, localFeedbacks>>

\* await fetch(...) resolves with an HTTP error status
FetchHttpError(i) ==
  /\ calls[i].phase = "fetch"
  /\ calls' = [calls EXCEPT ![i].phase = "errorBody"]
  /\ UNCHANGED <<currentMaster, conversations, isStreaming, storage, page,
                 modal, lastTurn, lastCall, appended, submits, feedback,
                 localConversations, localFeedbacks>>

\* await fetch(...) rejects (network failure)
FetchReject(i) ==
  /\ calls[i].phase = "fetch"
  /\ OnError(i, "failed")

\* await response.json() of the error body settles; the Error is thrown
ThrowHttpError(i) ==
  /\ calls[i].phase = "errorBody"
  /\ OnError(i, "failed")

\* await reader.read() resolves with the next k characters
ReadChunk(i, k) ==
  /\ calls[i].phase = "read"
  /\ k \in 1..Len(calls[i].rest)
  /\ LET d == Feed(calls[i].dec, SubSeq(calls[i].rest, 1, k))
     IN  IF d.done
         THEN OnComplete(i, d, "sentinel")
         ELSE /\ calls' = [calls EXCEPT ![i].dec = d,
                                        ![i].rest = Slice(@, k)]
              /\ UNCHANGED <<currentMaster, conversations, isStreaming,
                             storage, page, modal, lastTurn, lastCall,
                             appended, submits, feedback,
                 localConversations, localFeedbacks>>

\* mutant: when the source closes, what is left in the buffer is handled as
\* a last line
ReadDoneFlush(i) ==
  /\ calls[i].phase = "read"
  /\ calls[i].rest = <<>>
  /\ OnComplete(i, ForLines(<<calls[i].dec.buffer>>, calls[i].dec), "closed")

\* mutant: a source that closes without [DONE] is reported as an error
ReadDoneAsError(i) ==
  /\ calls[i].phase = "read"
  /\ calls[i].rest = <<>>
  /\ OnError(i, "closed")

\* await reader.read() resolves with done: the source has closed
ReadDone(i) ==
  /\ calls[i].phase = "read"
  /\ calls[i].rest = <<>>
  /\ OnComplete(i, calls[i].dec, "closed")

\* await reader.read() rejects in the middle of the stream
ReadFail(i) ==
  /\ calls[i].phase = "read"
  /\ OnError(i, "failed")

(***************************************************************************)
(* ChatPage.switchMaster, App.navigateTo                                   *)
(***************************************************************************)
\* mutant: the master is switched also while a turn is streaming
SwitchMasterUnguarded(masterId) ==
  /\ page = "chat"
  /\ currentMaster' = masterId
  /\ lastCall' = [op |-> "switchMaster", outcome |-> "switched",
                  blank |-> FALSE, busy |-> isStreaming,
                  signal |-> "toast.success"]
  /\ UNCHANGED <<conversations, isStreaming, storage, page, modal, calls,
                 lastTurn, appended, submits, feedback,
                 localConversations, localFeedbacks>>

SwitchMaster(masterId) ==
  /\ page = "chat"
  /\ IF isStreaming
     THEN /\ lastCall' = [op |-> "switchMaster", outcome |-> "blocked",
                          blank |-> FALSE, busy |-> TRUE,
                          signal |-> "toast.warning"]
          /\ UNCHANGED currentMaster
     ELSE /\ currentMaster' = masterId
          /\ lastCall' = [op |-> "switchMaster", outcome |-> "switched",
                          blank |-> FALSE, busy |-> FALSE,
                          signal |-> "toast.success"]
  /\ UNCHANGED <<conversations, isStreaming, storage, page, modal, calls,
                 lastTurn, appended, submits, feedback,
                 localConversations, localFeedbacks>>

\* mutant: rendering the chat page reads the conversations from the storage
NavigateToReloading(route) ==
  /\ page' = IF route \in Pages THEN route ELSE "chat"
  /\ conversations' = IF page' = "chat" /\ page # "chat"
                      THEN LoadConversations(storage, currentMaster)
                      ELSE conversations
  /\ UNCHANGED <<currentMaster, isStreaming, storage, modal,
                 calls, lastTurn, lastCall, appended, submits, feedback,
                 localConversations, localFeedbacks>>

NavigateTo(route) ==
  /\ page' = IF route \in Pages THEN route ELSE "chat"
  /\ UNCHANGED <<currentMaster, conversations, isStreaming, storage, modal,
                 calls, lastTurn, lastCall, appended, submits, feedback,
                 localConversations, localFeedbacks>>

\* the document is loaded anew: new App() constructs a new ChatPage, which
\* reads the stored conversations; the requests of the old document die
\* with it, the location hash (the page) stays
Reload ==
  /\ currentMaster' = "tocqueville"
  /\ conversations' = LoadConversations(storage, "tocqueville")
  /\ isStreaming' = FALSE
  /\ calls' = <<>>
  /\ modal' = "none"
  /\ lastTurn' = NoTurn
  /\ lastCall' = [op |-> "reload", outcome |-> "loaded", blank |-> FALSE,
                  busy |-> isStreaming, signal |-> "none"]
  /\ appended' = [m \in MASTERS |-> GetCurrentMessages(conversations', m)]
  /\ feedback' = NoFeedback
  /\ UNCHANGED <<storage, page, submits, localConversations, localFeedbacks>>

(***************************************************************************)
(* Modal.confirm dialogs: ChatPage.clearConversation and the settings      *)
(* page's "clear all conversations"                                        *)
(***************************************************************************)
\* click on the clear button: the dialog opens (its overlay covers the page)
ClearConversation ==
  /\ page = "chat"
  /\ modal = "none"
  /\ modal' = "clear"
  /\ UNCHANGED <<currentMaster, conversations, isStreaming, storage, page,
                 calls, lastTurn, lastCall, appended, submits, feedback,
                 localConversations, localFeedbacks>>

\* mutant: this.conversations = {[currentMaster]: []} and every other key emptied
ClearEverything(conv, master) == [m \in DOMAIN conv \cup {master} |-> <<>>]

\* this.conversations[this.currentMaster] = []
ClearCurrent(conv, master) == (master :> <<>>) @@ conv

\* click on confirm: onConfirm runs, then modal.close().  Off the chat page
\* the conversation element is gone: onConfirm throws after the save and
\* the dialog stays open.
ConfirmClear ==
  /\ modal = "clear"
  /\ conversations' = ClearCurrent(conversations, currentMaster)
  /\ appended' = [appended EXCEPT ![currentMaster] = <<>>]
  /\ \E writeOk \in BOOLEAN :
       storage' = SaveConversations(conversations', storage, writeOk)
  /\ IF page = "chat"
     THEN /\ modal' = "none"
          /\ lastCall' = [op |-> "clearConversation", outcome |-> "cleared",
                          blank |-> FALSE, busy |-> isStreaming,
                          signal |-> "toast.success"]
     ELSE /\ modal' = modal
          /\ lastCall' = [op |-> "clearConversation", outcome |-> "threw",
                          blank |-> FALSE, busy |-> isStreaming,
                          signal |-> "none"]
  /\ UNCHANGED <<currentMaster, isStreaming, page, calls, lastTurn, submits, feedback,
                 localConversations, localFeedbacks>>

\* cancel button, close button, Escape, click on the overlay.  A
\* submitFeedback call in flight goes on after its modal was closed.
CancelModal ==
  /\ modal # "none"
  /\ modal' = "none"
  /\ feedback' = IF feedback.submit = "pending" THEN feedback ELSE NoFeedback
  /\ UNCHANGED <<currentMaster, conversations, isStreaming, storage, page,
                 calls, lastTurn, lastCall, appended, submits,
                 localConversations, localFeedbacks>>

(***************************************************************************)
(* APIService: the lists kept in localStorage.  A stored array is its      *)
(* elements with their indices.                                            *)
(***************************************************************************)
\* JSON.stringify of an array
StringifyList(q) == {<<k, q[k]>> : k \in DOMAIN q}

\* JSON.parse of a stored array
ParseList(v) == [k \in 1..Cardinality(v) |-> (CHOOSE e \in v : e[1] = k)[2]]

\* getAllConversationsLocal: data ? JSON.parse(data) : []
GetAllConversationsLocal(st) == IF st.has THEN ParseList(st.value) ELSE <<>>

\* the cap of saveConversation
MaxLocalConversations == 50

\* mutant: the list is never shortened
SaveConversationUncapped(list, conversation) == <<conversation>> \o list

\* saveConversation, the list it writes: unshift, then pop if over the cap
SaveConversationList(list, conversation) ==
  LET u == <<conversation>> \o list
  IN  IF Len(u) > MaxLocalConversations THEN SubSeq(u, 1, Len(u) - 1) ELSE u

\* saveConversation(conversation); a setItem that throws leaves the item
SaveConversation(conversation) ==
  /\ \E writeOk \in BOOLEAN :
       localConversations' =
         IF writeOk
         THEN Stored(StringifyList(
                SaveConversationList(GetAllConversationsLocal(localConversations),
                                     conversation)))
         ELSE localConversations
  /\ UNCHANGED <<currentMaster, conversations, isStreaming, storage, page,
                 modal, calls, lastTurn, lastCall, appended, submits, feedback,
                 localFeedbacks>>

\* deleteConversationLocal(id): filter(conv => conv.id !== id)
DeleteConversationLocal(id) ==
  /\ \E writeOk \in BOOLEAN :
       localConversations' =
         IF writeOk
         THEN Stored(StringifyList(
                SelectSeq(GetAllConversationsLocal(localConversations),
                          LAMBDA conv : conv.id # id)))
         ELSE localConversations
  /\ UNCHANGED <<currentMaster, conversations, isStreaming, storage, page,
                 modal, calls, lastTurn, lastCall, appended, submits, feedback,
                 localFeedbacks>>

(***************************************************************************)
(* App.showFeedback and the FeedbackModal                                  *)
(***************************************************************************)
\* this.rating = 5
InitialRating == 5

\* Array.from({length: 10}, (_, i) => i + 1): the rating buttons
RatingCount == 10

Digits == <<"0", "1", "2", "3", "4", "5", "6", "7", "8", "9">>

\* `${num}`: the decimal text of a number below 100
NumberToString(n) ==
  IF n < 10 THEN <<Digits[n + 1]>>
  ELSE <<Digits[(n \div 10) + 1], Digits[(n % 10) + 1]>>

DigitValue(ch) == (CHOOSE k \in DOMAIN Digits : Digits[k] = ch) - 1

\* mutant: parseInt that reads the first digit only
ParseIntFirstDigit(text) == DigitValue(text[1])

\* parseInt of a decimal text
RECURSIVE ParseInt(_)
ParseInt(text) ==
  IF Len(text) = 1 THEN DigitValue(text[1])
  ELSE 10 * ParseInt(SubSeq(text, 1, Len(text) - 1)) + DigitValue(text[Len(text)])

\* data-rating of the rating buttons
RatingButtons == [i \in 1..RatingCount |-> NumberToString(i)]

\* click on the feedback button of an assistant message (the button is part
\* of the tools of every assistant message on display): the array returned
\* by getCurrentMessages is handed to the FeedbackModal, which keeps it
\* (one FeedbackModal is followed at a time: the next one is opened when the
\* submitFeedback call of the last one has settled)
ShowFeedback ==
  /\ page = "chat"
  /\ modal = "none"
  /\ feedback = NoFeedback
  /\ LET messages == GetCurrentMessages(conversations, currentMaster)
     IN  /\ \E k \in DOMAIN messages : messages[k].role = "assistant"
         /\ messages # <<>>
         /\ modal' = "feedback"
         /\ feedback' = [master |-> currentMaster, taken |-> messages,
                         rating |-> InitialRating, submit |-> "idle",
                         sent |-> 0]
  /\ UNCHANGED <<currentMaster, conversations, isStreaming, storage, page,
                 calls, lastTurn, lastCall, appended, submits,
                 localConversations, localFeedbacks>>

\* FeedbackModal.messages: this.messages = messages keeps the reference it
\* was given, so reading it reads the store's array for that master (the
\* store replaces the array only in the clear handler, whose dialog cannot
\* be open at the same time)
FeedbackMessages == GetCurrentMessages(conversations, feedback.master)

\* click on the b-th rating button: this.rating = parseInt(btn.dataset.rating)
SetRating(b) ==
  /\ modal = "feedback"
  /\ feedback' = [feedback EXCEPT !.rating = ParseInt(RatingButtons[b])]
  /\ UNCHANGED <<currentMaster, conversations, isStreaming, storage, page,
                 modal, calls, lastTurn, lastCall, appended, submits,
                 localConversations, localFeedbacks>>

\* getAllFeedbacks: data ? JSON.parse(data) : []
GetAllFeedbacks(st) == IF st.has THEN ParseList(st.value) ELSE <<>>

\* stored feedback records explored
MaxFeedbacks == 2

\* click on submit: the button is disabled and api.submitFeedback is called
\* with this.rating
SubmitFeedback ==
  /\ modal = "feedback"
  /\ feedback.submit = "idle"
  /\ Len(GetAllFeedbacks(localFeedbacks)) < MaxFeedbacks
  /\ feedback' = [feedback EXCEPT !.submit = "pending", !.sent = feedback.rating]
  /\ UNCHANGED <<currentMaster, conversations, isStreaming, storage, page,
                 modal, calls, lastTurn, lastCall, appended, submits,
                 localConversations, localFeedbacks>>

\* saveFeedback: feedbacks.push(feedback) and setItem
SaveFeedback(st, fb) == Stored(StringifyList(Append(GetAllFeedbacks(st), fb)))

\* the catch of the submit handler: Toast.error, the button is enabled again
\* (a modal that was closed meanwhile is not shown again)
SubmitCaught(outcome) ==
  /\ feedback' = IF modal = "feedback"
                 THEN [feedback EXCEPT !.submit = "idle", !.sent = 0]
                 ELSE NoFeedback
  /\ lastCall' = [op |-> "submitFeedback", outcome |-> outcome,
                  blank |-> FALSE, busy |-> isStreaming,
                  signal |-> "toast.error"]
  /\ UNCHANGED <<modal, localFeedbacks>>

\* api.submitFeedback resolved: saveFeedback with this.rating, Toast.success,
\* modal.close(); a setItem that throws in saveFeedback is caught like a
\* failed submission
SubmitOk ==
  /\ feedback.submit = "pending"
  /\ \E writeOk \in BOOLEAN :
       IF writeOk
       THEN /\ localFeedbacks' =
                 SaveFeedback(localFeedbacks, [rating |-> feedback.rating])
            /\ modal' = IF modal = "feedback" THEN "none" ELSE modal
            /\ feedback' = NoFeedback
            /\ lastCall' = [op |-> "submitFeedback", outcome |-> "stored",
                            blank |-> FALSE, busy |-> isStreaming,
                            signal |-> "toast.success"]
       ELSE SubmitCaught("saveFailed")
  /\ UNCHANGED <<currentMaster, conversations, isStreaming, storage, page,
                 calls, lastTurn, appended, submits, localConversations>>

\* mutant: the record is saved before the outcome of the submission is known
SubmitFailStores ==
  /\ feedback.submit = "pending"
  /\ feedback' = IF modal = "feedback"
                 THEN [feedback EXCEPT !.submit = "idle", !.sent = 0]
                 ELSE NoFeedback
  /\ lastCall' = [op |-> "submitFeedback", outcome |-> "failed",
                  blank |-> FALSE, busy |-> isStreaming,
                  signal |-> "toast.error"]
  /\ localFeedbacks' = SaveFeedback(localFeedbacks, [rating |-> feedback.rating])
  /\ UNCHANGED <<currentMaster, conversations, isStreaming, storage, page,
                 modal, calls, lastTurn, appended, submits, localConversations>>

\* api.submitFeedback rejected (fetch failed, or an error status)
SubmitFail ==
  /\ feedback.submit = "pending"
  /\ SubmitCaught("failed")
  /\ UNCHANGED <<currentMaster, conversations, isStreaming, storage, page,
                 calls, lastTurn, appended, submits, localConversations>>

\* click on "clear all conversations" of the settings page
ClearAllConversations ==
  /\ page = "settings"
  /\ modal = "none"
  /\ modal' = "clearAll"
  /\ UNCHANGED <<currentMaster, conversations, isStreaming, storage, page,
                 calls, lastTurn, lastCall, appended, submits, feedback,
                 localConversations, localFeedbacks>>

\* localStorage.removeItem('masterConversations')
RemoveStored(st) == Absent

ConfirmClearAll ==
  /\ modal = "clearAll"
  /\ storage' = RemoveStored(storage)
  /\ modal' = "none"
  /\ lastCall' = [op |-> "clearAll", outcome |-> "cleared",
                  blank |-> FALSE, busy |-> isStreaming,
                  signal |-> "toast.success"]
  /\ UNCHANGED <<currentMaster, conversations, isStreaming, page, calls,
                 lastTurn, appended, submits, feedback,
                 localConversations, localFeedbacks>>

(***************************************************************************)
(* The list of saved conversations on its own.  A conversation handed to   *)
(* saveConversation carries its id and the time `at` of its creation,      *)
(* later than that of every conversation stored.                           *)
(***************************************************************************)
\* the latest creation time explored
MaxStamp == 52

ConversationIds == {"a", "b"}

\* the creation times at which the second id is explored
OtherIdAt == {1, 2, MaxLocalConversations + 1}

Latest(list) ==
  IF list = <<>> THEN 0
  ELSE CHOOSE t \in {list[k].at : k \in DOMAIN list} :
         \A k \in DOMAIN list : list[k].at <= t

NewConversations(list) ==
  LET t == Latest(list) + 1
  IN  IF t > MaxStamp THEN {}
      ELSE {[id |-> i, at |-> t] :
              i \in IF t \in OtherIdAt THEN ConversationIds ELSE {"a"}}

NextList ==
  \/ \E c \in NewConversations(GetAllConversationsLocal(localConversations)) :
       SaveConversation(c)
  \/ \E id \in ConversationIds : DeleteConversationLocal(id)

SpecList == Init /\ [][NextList]_vars

(***************************************************************************)
(* The feedback modal after one completed turn                             *)
(***************************************************************************)
\* submits explored in one behaviour of the feedback specification
FbSubmits == 1

NextFb ==
  \/ SendMessage(<<"q">>, {<<"deltaA", "done">>}, {0}, FbSubmits)
  \/ \E i \in DOMAIN calls : FetchOk(i)
  \/ \E i \in DOMAIN calls : ReadChunk(i, Len(calls[i].rest))
  \/ ShowFeedback
  \/ \E b \in 1..RatingCount : SetRating(b)
  \/ SubmitFeedback
  \/ SubmitOk
  \/ SubmitFail
  \/ CancelModal

SpecFb == Init /\ [][NextFb]_vars

(***************************************************************************)
(* Specification of the whole controller                                   *)
(***************************************************************************)
\* responses of the remote service explored with the whole controller
CtlScripts == {<<"deltaA", "done">>, <<"deltaA">>}

\* chunk sizes explored with the whole controller: CtlChunk characters, or
\* all that is left
CtlSizes(i) == {CtlChunk, Len(calls[i].rest)}

Next ==
  \/ \E input \in Inputs : SendMessage(input, CtlScripts, {0}, MaxSubmits)
  \/ \E i \in DOMAIN calls : FetchOk(i)
  \/ \E i \in DOMAIN calls : FetchHttpError(i)
  \/ \E i \in DOMAIN calls : FetchReject(i)
  \/ \E i \in DOMAIN calls : ThrowHttpError(i)
  \/ \E i \in DOMAIN calls : \E k \in CtlSizes(i) : ReadChunk(i, k)
  \/ \E i \in DOMAIN calls : ReadDone(i)
  \/ \E i \in DOMAIN calls : ReadFail(i)
  \/ \E m \in MASTERS : SwitchMaster(m)
  \/ \E r \in Routes : NavigateTo(r)
  \/ Reload
  \/ ClearConversation
  \/ ConfirmClear
  \/ CancelModal
  \/ ClearAllConversations
  \/ ConfirmClearAll
  \/ ShowFeedback

Spec == Init /\ [][Next]_vars

(***************************************************************************)
(* The whole controller with a remote source that eventually answers: the  *)
(* fetch and the error body settle, and a stream that was not ended by     *)
(* [DONE] is eventually closed by the source or fails.                     *)
(***************************************************************************)
StreamStep ==
  \E i \in DOMAIN calls :
    \/ FetchOk(i)
    \/ FetchHttpError(i)
    \/ FetchReject(i)
    \/ ThrowHttpError(i)
    \/ \E k \in CtlSizes(i) : ReadChunk(i, k)
    \/ ReadDone(i)
    \/ ReadFail(i)

\* what the user may do besides submitting
UserStep ==
  \/ \E m \in MASTERS : SwitchMaster(m)
  \/ \E r \in Routes : NavigateTo(r)
  \/ Reload
  \/ ClearConversation
  \/ ConfirmClear
  \/ CancelModal
  \/ ClearAllConversations
  \/ ConfirmClearAll
  \/ ShowFeedback

\* accepted submits explored in one behaviour of this specification
LiveSubmits == 1

NextLive ==
  \/ \E input \in Inputs : SendMessage(input, CtlScripts, {0}, LiveSubmits)
  \/ StreamStep
  \/ UserStep

\* the source settles the call: fetch resolves or rejects, the error body
\* arrives, the stream closes or a read fails
SourceSettles ==
  \E i \in DOMAIN calls :
    \/ FetchOk(i)
    \/ FetchHttpError(i)
    \/ FetchReject(i)
    \/ ThrowHttpError(i)
    \/ ReadDone(i)
    \/ ReadFail(i)

SpecLive == Init /\ [][NextLive]_vars /\ WF_vars(SourceSettles)

(***************************************************************************)
(* Specification of the stream decoder: one page, every wire script of up  *)
(* to MaxItems events (and a few longer ones), every truncation of up to   *)
(* MaxCut characters, every way of cutting the text into chunks            *)
(***************************************************************************)
DecItems == {"role", "deltaA", "deltaB", "finishB", "usage", "nocontent",
             "done", "bad", "comment", "nospace", "indent"}

LongScripts ==
  { <<"role", "deltaA", "finishB", "usage", "done">>,
    <<"deltaA", "empty", "deltaB", "done">>,
    <<"deltaA", "bad", "deltaB", "done">>,
    <<"deltaA", "finishB", "deltaA">>,
    <<"deltaA", "doneCR", "deltaB">>,
    <<"deltaA", "done", "deltaB", "done">>,
    <<"empty", "usage", "done">> }

DecScripts ==
  UNION {[1..n -> DecItems] : n \in 0..MaxItems} \cup LongScripts

\* submits explored in one behaviour of the decoder specification
DecSubmits == 1

NextDec ==
  \/ SendMessage(<<"q">>, DecScripts, 0..MaxCut, DecSubmits)
  \/ \E i \in DOMAIN calls : FetchOk(i)
  \/ \E i \in DOMAIN calls : \E k \in 1..Len(calls[i].rest) : ReadChunk(i, k)
  \/ \E i \in DOMAIN calls : ReadDone(i)
  \/ \E i \in DOMAIN calls : ReadFail(i)

SpecDec == Init /\ [][NextDec]_vars

(***************************************************************************)
(* Properties                                                              *)
(***************************************************************************)
Range(q) == {q[j] : j \in DOMAIN q}

\* the step ends call i with onComplete
Completes(i) ==
  /\ i \in DOMAIN calls
  /\ Len(calls') < Len(calls)
  /\ lastTurn'.outcome = "complete"

\* the step ends call i with onError
Fails(i) ==
  /\ i \in DOMAIN calls
  /\ Len(calls') < Len(calls)
  /\ lastTurn'.outcome = "error"

\* the text of call c that the source has delivered so far
Delivered(c) ==
  LET t == WireText(c.script, c.cut)
  IN  SubSeq(t, 1, Len(t) - Len(c.rest))

\* the callbacks made when the whole text arrives as a single chunk
OneChunkEvents(script, cut) ==
  Append(Feed(NewDecoder, WireText(script, cut)).events, <<"complete">>)

\* C1: line-reassembly invariance.  However the delivered text was cut into
\* chunks, the decoder is in the state it reaches when the same text arrives
\* as one chunk, and a completed call has made exactly the callbacks (the
\* onChunk fragments in order, then onComplete) of the one-chunk decoding.
C1_Reassembly ==
  [][\A i \in DOMAIN calls :
       /\ (Len(calls') = Len(calls) /\ calls'[i].phase = "read")
            => calls'[i].dec = Feed(NewDecoder, Delivered(calls'[i]))
       /\ (calls[i].phase = "read" /\ Completes(i))
            => lastTurn'.events = OneChunkEvents(calls[i].script, calls[i].cut)]_vars

\* a chunk ended in the middle of the 'data: ' prefix, after a first fragment
C1_Witness ==
  \E i \in DOMAIN calls :
    /\ calls[i].dec.buffer = <<"d", "a", "t">>
    /\ calls[i].dec.events # <<>>

\* the fragments of the delta events of a script whose lines are terminated
\* within the first n characters of its text, up to the first [DONE]
RECURSIVE ExpectedText(_, _)
ExpectedText(script, n) ==
  IF script = <<>> THEN <<>>
  ELSE LET l == Len(ItemLine(Head(script)))
       IN  IF n < l + 1 \/ IsDone(Head(script)) THEN <<>>
           ELSE ItemContent(Head(script)) \o ExpectedText(Tail(script), n - (l + 2))

\* C2: order-preserving accumulation.  When a turn is finalized, fullResponse
\* is the concatenation, in arrival order, of the content fragments of the
\* delta events decoded before the end of the stream.
C2_Accumulation ==
  [][\A i \in DOMAIN calls :
       (calls[i].phase = "read" /\ Completes(i))
         => lastTurn'.fullResponse =
              ExpectedText(calls[i].script, Len(WireText(calls[i].script, calls[i].cut)))]_vars

\* a turn was finalized with two fragments in order
C2_Witness ==
  /\ lastTurn.outcome = "complete"
  /\ lastTurn.fullResponse = <<"A", "B">>
  /\ lastTurn.events = << <<"chunk", <<"A">> >>, <<"chunk", <<"B">> >>, <<"complete">> >>

\* C3 (as claimed): at the commit of a completed turn the master's history is
\* the history before the submit, the user message, and one assistant message
\* with the accumulated text.
C3_CommitAddsTwo ==
  [][\A i \in DOMAIN calls :
       Completes(i)
         => GetCurrentMessages(conversations', calls[i].master) =
              calls[i].pre \o << Message("user", calls[i].user),
                                 Message("assistant", lastTurn'.fullResponse) >>]_vars

\* C4: a stream that ends with [DONE] and one that ends by source closure both
\* finalize normally: onComplete is the one terminal callback, onError is not
\* invoked, and an assistant message with the accumulated text is appended.
C4_NormalCompletion ==
  [][(lastTurn' # lastTurn /\ lastTurn'.how \in {"sentinel", "closed"})
       => /\ lastTurn'.outcome = "complete"
          /\ <<"error">> \notin Range(lastTurn'.events)
          /\ Cardinality({j \in DOMAIN lastTurn'.events :
                            lastTurn'.events[j] = <<"complete">>}) = 1
          /\ GetCurrentMessages(conversations', currentMaster) =
               Append(GetCurrentMessages(conversations, currentMaster),
                      Message("assistant", lastTurn'.fullResponse))]_vars

\* the source closed without [DONE] and the turn was committed
C4_Witness ==
  /\ lastTurn.how = "closed"
  /\ lastTurn.outcome = "complete"
  /\ lastTurn.fullResponse = <<"A">>
  /\ Len(GetCurrentMessages(conversations, currentMaster)) = 2

\* C5 (as claimed): after a failed turn the master's history is the history
\* before the submit followed by the user message.
C5_FailureKeepsUserMessage ==
  [][\A i \in DOMAIN calls :
       Fails(i)
         => GetCurrentMessages(conversations', calls[i].master) =
              Append(calls[i].pre, Message("user", calls[i].user))]_vars

\* C6: at most one streamMessage call is pending.
C6_OneInFlight == Len(calls) <= 1

\* a second submit was attempted while a call is pending
C6_Witness ==
  /\ Len(calls) = 1
  /\ lastCall.op = "sendMessage"
  /\ lastCall.busy
  /\ ~lastCall.blank

\* a sendMessage handler ran while a turn was streaming
BusySubmit ==
  /\ isStreaming
  /\ lastCall' # lastCall
  /\ lastCall'.op = "sendMessage"

C8_AppendThenRead ==
  \A m \in MASTERS : GetCurrentMessages(conversations, m) = appended[m]

\* one master holds a committed turn, the other never received a message
C8_Witness ==
  /\ GetCurrentMessages(conversations, "tocqueville") =
       << Message("user", <<"q">>), Message("assistant", <<"A">>) >>
  /\ "weber" \notin DOMAIN conversations
  /\ GetCurrentMessages(conversations, "weber") = <<>>

\* the stored history of master m
StoredHistory(st, m) ==
  IF st.has THEN GetCurrentMessages(ParseStored(st.value), m) ELSE <<>>

OthersUnchanged ==
  \A m \in MASTERS \ {currentMaster} :
    GetCurrentMessages(conversations', m) = GetCurrentMessages(conversations, m)

\* C9 (as claimed): a confirmed clear empties the current master's history in
\* memory and in durable storage and leaves every other history unchanged.
C9_ClearEmptiesStored ==
  [][ConfirmClear
       => /\ GetCurrentMessages(conversations', currentMaster) = <<>>
          /\ StoredHistory(storage', currentMaster) = <<>>
          /\ OthersUnchanged]_vars

\* C9, what holds also when the storage write fails (see C17): a confirmed
\* clear empties the current master's history in memory, and in durable
\* storage unless the write fails (then the stored value is left as it
\* was); every other history is unchanged.
C9_ClearEmptiesMemory ==
  [][ConfirmClear
       => /\ GetCurrentMessages(conversations', currentMaster) = <<>>
          /\ (storage' = storage \/ StoredHistory(storage', currentMaster) = <<>>)
          /\ OthersUnchanged]_vars

\* a clear was confirmed for one master while the other holds messages
C9_Witness ==
  /\ lastCall.op = "clearConversation"
  /\ GetCurrentMessages(conversations, currentMaster) = <<>>
  /\ StoredHistory(storage, currentMaster) = <<>>
  /\ storage.has
  /\ \E m \in MASTERS \ {currentMaster} :
       /\ GetCurrentMessages(conversations, m) # <<>>
       /\ StoredHistory(storage, m) = GetCurrentMessages(conversations, m)

\* C10 (as claimed): after a confirmed "clear all conversations" every
\* master's history read with getCurrentMessages is empty.  (The claim adds
\* that no earlier message is read or persisted afterwards; this first part
\* already fails, since the handler only removes the stored item and the
\* in-memory conversations keep every message.)
C10_ClearAllEmpties ==
  [][ConfirmClearAll
       => \A m \in MASTERS : GetCurrentMessages(conversations', m) = <<>>]_vars

\* C11: histories survive a restart.  When the stored value is the one written
\* by a successful save of the present conversations and the ChatPage is
\* constructed anew, every master's history is what it was before, in order.
C11_SurvivesRestart ==
  [][(Reload /\ storage = Stored(Stringify(conversations)))
       => \A m \in MASTERS :
            GetCurrentMessages(conversations', m) = GetCurrentMessages(conversations, m)]_vars

\* after a restart both masters hold the messages persisted before it, the
\* one that is not the constructor's master included
C11_Witness ==
  /\ lastCall.op = "reload"
  /\ currentMaster = "tocqueville"
  /\ GetCurrentMessages(conversations, "tocqueville") # <<>>
  /\ GetCurrentMessages(conversations, "weber") = << Message("user", <<"q">>) >>
  /\ storage = Stored(Stringify(conversations))

\* C12: a 'data: ' line whose payload is not JSON is dropped.  A call whose
\* script holds such a line and whose source does not fail ends with
\* onComplete, without onError, and commits the fragments of the valid delta
\* events only.
C12_MalformedDropped ==
  [][\A i \in DOMAIN calls :
       ( /\ calls[i].phase = "read"
         /\ "bad" \in Range(calls[i].script)
         /\ Len(calls') < Len(calls)
         /\ lastTurn'.how # "failed" )
         => /\ lastTurn'.outcome = "complete"
            /\ <<"error">> \notin Range(lastTurn'.events)
            /\ lastTurn'.fullResponse =
                 ExpectedText(calls[i].script,
                              Len(WireText(calls[i].script, calls[i].cut)))
            /\ GetCurrentMessages(conversations', calls[i].master) =
                 Append(GetCurrentMessages(conversations, calls[i].master),
                        Message("assistant", lastTurn'.fullResponse))]_vars

\* a malformed line between two valid delta events: the turn was committed
\* with both fragments
C12_Witness ==
  /\ lastTurn.script = <<"deltaA", "bad", "deltaB", "done">>
  /\ lastTurn.outcome = "complete"
  /\ lastTurn.how = "sentinel"
  /\ lastTurn.fullResponse = <<"A", "B">>

\* the onChunk calls of the events of a script that precede its first [DONE]
RECURSIVE EventsBeforeDone(_)
EventsBeforeDone(script) ==
  IF script = <<>> \/ IsDone(Head(script)) THEN <<>>
  ELSE (IF ItemContent(Head(script)) # <<>>
        THEN << <<"chunk", ItemContent(Head(script))>> >>
        ELSE <<>>) \o EventsBeforeDone(Tail(script))

\* C13: [DONE] ends the decoding at once.  When the sentinel is decoded,
\* onComplete is invoked once, as the last callback; the onChunk calls are
\* those of the events before the first [DONE], whatever follows it in the
\* same chunk or later; and the call is over, so nothing more is read.
C13_DoneEndsAtOnce ==
  [][\A i \in DOMAIN calls :
       (Completes(i) /\ lastTurn'.how = "sentinel")
         => /\ lastTurn'.events =
                 Append(EventsBeforeDone(calls[i].script), <<"complete">>)
            /\ calls' = RemoveAt(calls, i)]_vars

\* the sentinel was decoded although a delta event and a second [DONE] follow
C13_Witness ==
  /\ lastTurn.script = <<"deltaA", "done", "deltaB", "done">>
  /\ lastTurn.how = "sentinel"
  /\ lastTurn.events = << <<"chunk", <<"A">> >>, <<"complete">> >>
  /\ calls = <<>>

\* events whose line does not start with 'data: '
NonDataItems == {"comment", "nospace", "indent"}

\* the lines that a read step of call i completes
CompletedLines(i) ==
  LET chunk == SubSeq(calls[i].rest, 1, Len(calls[i].rest) - Len(calls'[i].rest))
      lines == SplitLines(calls[i].dec.buffer \o chunk)
  IN  SubSeq(lines, 1, Len(lines) - 1)

\* C14: only lines that start with 'data: ' are surfaced.  A read step that
\* makes a callback or changes the accumulated text has completed such a
\* line; a stream made only of comment lines, 'data:' lines without the
\* space, indented 'data: ' lines and blank lines makes no onChunk call and
\* is never ended by a sentinel.
C14_OnlyDataLines ==
  [][\A i \in DOMAIN calls :
       /\ ( /\ Len(calls') = Len(calls)
            /\ calls[i].phase = "read"
            /\ calls'[i].phase = "read"
            /\ \/ calls'[i].dec.events # calls[i].dec.events
               \/ calls'[i].dec.fullResponse # calls[i].dec.fullResponse )
            => \E line \in Range(CompletedLines(i)) : StartsWith(line, DataPrefix)
       /\ ( /\ Completes(i)
            /\ Range(calls[i].script) \subseteq NonDataItems )
            => /\ lastTurn'.how = "closed"
               /\ lastTurn'.events = << <<"complete">> >>
               /\ lastTurn'.fullResponse = <<>>]_vars

\* a stream of an indented 'data: ' line and a 'data:' line without the
\* space was read to its end
C14_Witness ==
  /\ lastTurn.script = <<"indent", "nospace">>
  /\ lastTurn.how = "closed"
  /\ lastTurn.events = << <<"complete">> >>

\* C15: every accepted submit eventually returns the controller to idle.
\* With a source that eventually answers, whenever isStreaming is true it
\* eventually becomes false again: on completion and on every error path.
C15_EventuallyIdle == isStreaming ~> ~isStreaming

\* the controller is idle again after a read failure in the middle of a
\* stream, with a fragment already accumulated
C15_Witness ==
  /\ ~isStreaming
  /\ lastTurn.outcome = "error"
  /\ lastTurn.how = "failed"
  /\ lastTurn.fullResponse = <<"A">>
  /\ calls = <<>>

\* C16 (as claimed): when isStreaming becomes false at the end of a turn, the
\* body reader of the turn has been closed, cancelled or read to its end.
C16_ReaderReleased ==
  [][(isStreaming /\ ~isStreaming' /\ lastTurn'.outcome # "none")
       => lastTurn'.reader # "open"]_vars

\* C17 (as claimed): a failed storage write is not visible.  After every
\* append and every clear, the history read for every master is the one of
\* the persisted value: the new one when the write succeeded, the last
\* successfully persisted one when it failed.
C17_FailedWriteNotVisible ==
  [][conversations' # conversations
       => \A m \in MASTERS :
            GetCurrentMessages(conversations', m) = StoredHistory(storage', m)]_vars

\* C18 (as claimed): while a turn of one master is in flight the user can
\* select another master (and then submit a turn for it): selecting master
\* m makes m the current master.
C18_OtherPersonaSelectable ==
  [][\A m \in MASTERS \ {currentMaster} :
       (isStreaming /\ SwitchMaster(m)) => currentMaster' = m]_vars

\* C19: a turn is scoped to its master.  While a call is pending, the current
\* master is the one the turn was submitted for (the one named in the
\* request, whose history the request carries); no step of the running page
\* changes another master's history; and the commit appends the assistant
\* message to the history of the turn's master.  SwitchMaster attempts are
\* interleaved with the stream steps in every possible way.
C19_TurnPersonaScoped ==
  [][\A i \in DOMAIN calls :
       /\ calls[i].master = currentMaster
       /\ calls[i].request.character = calls[i].master
       /\ calls[i].request.messages =
            Append(calls[i].pre, Message("user", calls[i].user))
       /\ ~Reload
            => \A m \in MASTERS \ {calls[i].master} :
                 GetCurrentMessages(conversations', m) =
                   GetCurrentMessages(conversations, m)
       /\ Completes(i)
            => GetCurrentMessages(conversations', calls[i].master) =
                 Append(GetCurrentMessages(conversations, calls[i].master),
                        Message("assistant", lastTurn'.fullResponse))]_vars

\* a turn submitted for weber was committed to weber's history after an
\* attempt to switch the master during the turn had been refused
C19_Witness ==
  /\ lastCall.op = "switchMaster"
  /\ lastCall.outcome = "blocked"
  /\ lastTurn.outcome = "complete"
  /\ currentMaster = "weber"
  /\ GetCurrentMessages(conversations, "weber") =
       << Message("user", <<"q">>), Message("assistant", <<"A">>) >>
  /\ GetCurrentMessages(conversations, "tocqueville") = <<>>

\* C20: on an accepted submit the request is issued after the user message
\* was appended.  It names the current master, carries that master's full
\* history in order with the new user message as its last element (no
\* assistant placeholder), and has stream = true and temperature = 0.5.
C20_RequestEnvelope ==
  [][Len(calls') > Len(calls)
       => LET c == calls'[Len(calls')]
          IN  /\ c.phase = "fetch"
              /\ c.request.character = currentMaster'
              /\ c.request.messages =
                   GetCurrentMessages(conversations', currentMaster')
              /\ c.request.messages =
                   Append(GetCurrentMessages(conversations, currentMaster),
                          Message("user", c.user))
              /\ c.user # <<>>
              /\ c.request.stream = TRUE
              /\ c.request.temperature = "0.5"]_vars

\* a second turn was submitted: its request carries the first turn and the
\* new user message
C20_Witness ==
  /\ Len(calls) = 1
  /\ calls[1].phase = "fetch"
  /\ calls[1].request.messages =
       << Message("user", <<"q">>), Message("assistant", <<"A">>),
          Message("user", <<"q">>) >>
  /\ calls[1].request.character = "weber"

\* C21: finalizing a turn without any accumulated fragment (only [DONE],
\* only empty or usage events, or a source that closes at once) appends
\* exactly one assistant message, with empty content, and makes no onError
\* call.
C21_EmptyTurnCommitted ==
  [][\A i \in DOMAIN calls :
       (Completes(i) /\ lastTurn'.fullResponse = <<>>)
         => /\ GetCurrentMessages(conversations', calls[i].master) =
                 Append(GetCurrentMessages(conversations, calls[i].master),
                        Message("assistant", <<>>))
            /\ lastTurn'.events = << <<"complete">> >>]_vars

\* a stream of an empty delta, a usage event and [DONE] was committed as an
\* empty assistant message
C21_Witness ==
  /\ lastTurn.script = <<"empty", "usage", "done">>
  /\ lastTurn.outcome = "complete"
  /\ GetCurrentMessages(conversations, currentMaster) =
       << Message("user", <<"q">>), Message("assistant", <<>>) >>

\* C22: a usage event (an envelope without result.delta) is inert.  A read
\* step that makes a callback or changes the accumulated text has completed
\* a line that is neither a usage event nor blank; while the call goes on no
\* history changes; and a stream of usage events only makes no onChunk call
\* and is not ended by its events but by the source.
C22_UsageInert ==
  [][\A i \in DOMAIN calls :
       /\ ( /\ Len(calls') = Len(calls)
            /\ calls[i].phase = "read"
            /\ calls'[i].phase = "read"
            /\ \/ calls'[i].dec.events # calls[i].dec.events
               \/ calls'[i].dec.fullResponse # calls[i].dec.fullResponse )
            => \E line \in Range(CompletedLines(i)) :
                 line \notin {<<>>, ItemLine("usage")}
       /\ ( /\ Len(calls') = Len(calls)
            /\ calls[i].phase = "read"
            /\ calls'[i].rest # calls[i].rest )
            => conversations' = conversations
       /\ ( /\ calls[i].phase = "read"
            /\ Len(calls') < Len(calls)
            /\ calls[i].script # <<>>
            /\ Range(calls[i].script) = {"usage"} )
            => /\ lastTurn'.how \in {"closed", "failed"}
               /\ lastTurn'.fullResponse = <<>>
               /\ Len(lastTurn'.events) = 1]_vars

\* a usage event was decoded in the middle of a stream: no callback was
\* made and the history is the one of the submit
C22_Witness ==
  \E i \in DOMAIN calls :
    /\ calls[i].script = <<"usage", "deltaA">>
    /\ Len(Delivered(calls[i])) > Len(ItemLine("usage")) + 2
    /\ calls[i].dec.events = <<>>
    /\ calls[i].dec.fullResponse = <<>>
    /\ GetCurrentMessages(conversations, calls[i].master) =
         << Message("user", <<"q">>) >>

C25_FinishReasonGoesOn ==
  [][\A i \in DOMAIN calls :
       ( /\ calls[i].phase = "read"
         /\ "finishB" \in Range(calls[i].script)
         /\ Len(calls') < Len(calls)
         /\ lastTurn'.how # "failed" )
         => /\ lastTurn'.how = "sentinel"
                 => \E j \in DOMAIN calls[i].script : IsDone(calls[i].script[j])
            /\ lastTurn'.fullResponse =
                 ExpectedText(calls[i].script,
                              Len(WireText(calls[i].script, calls[i].cut)))
            /\ lastTurn'.events =
                 Append([j \in 1..Len(lastTurn'.fullResponse) |->
                           <<"chunk", <<lastTurn'.fullResponse[j]>> >>],
                        <<"complete">>)]_vars

\* fragments before, in and after the event with the finish_reason were
\* committed in order
C25_Witness ==
  /\ lastTurn.script = <<"deltaA", "finishB", "deltaA">>
  /\ lastTurn.outcome = "complete"
  /\ lastTurn.fullResponse = <<"A", "B", "A">>

\* the delivered text of call c up to and including its last line terminator
Terminated(c) ==
  SubSeq(Delivered(c), 1, Len(Delivered(c)) - Len(c.dec.buffer))

\* C27: text is surfaced only as terminated lines.  The carry-over buffer of
\* a pending call is the delivered text after the last line terminator (it
\* holds no terminator itself); the callbacks made so far are those of the
\* terminated text alone; and when the source closes with a partial line in
\* the buffer, onComplete follows the callbacks made so far at once: the
\* fragment of the unterminated line is neither surfaced nor committed.
C27_TerminatedLinesOnly ==
  [][\A i \in DOMAIN calls :
       /\ calls[i].phase = "read"
            => /\ NL \notin Range(calls[i].dec.buffer)
               /\ Len(calls[i].dec.buffer) <= Len(Delivered(calls[i]))
               /\ Delivered(calls[i]) = Terminated(calls[i]) \o calls[i].dec.buffer
               /\ \/ Terminated(calls[i]) = <<>>
                  \/ Terminated(calls[i])[Len(Terminated(calls[i]))] = NL
               /\ calls[i].dec.events =
                    Feed(NewDecoder, Terminated(calls[i])).events
       /\ (Completes(i) /\ lastTurn'.how = "closed")
            => /\ lastTurn'.events = Append(calls[i].dec.events, <<"complete">>)
               /\ lastTurn'.fullResponse = calls[i].dec.fullResponse]_vars

\* the source closed after the second 'data: ' line but before its line
\* terminator: only the first fragment was surfaced and committed
C27_Witness ==
  /\ lastTurn.script = <<"deltaA", "deltaB">>
  /\ lastTurn.how = "closed"
  /\ lastTurn.events = << <<"chunk", <<"A">> >>, <<"complete">> >>
  /\ GetCurrentMessages(conversations, currentMaster) =
       << Message("user", <<"q">>), Message("assistant", <<"A">>) >>

\* the non-empty fragments, in order, of the delta events of a script whose
\* lines are terminated within the first n characters of its text, up to the
\* first [DONE]
RECURSIVE ExpectedFragments(_, _)
ExpectedFragments(script, n) ==
  IF script = <<>> THEN <<>>
  ELSE LET l == Len(ItemLine(Head(script)))
       IN  IF n < l + 1 \/ IsDone(Head(script)) THEN <<>>
           ELSE (IF ItemContent(Head(script)) # <<>>
                 THEN <<ItemContent(Head(script))>> ELSE <<>>)
                  \o ExpectedFragments(Tail(script), n - (l + 2))

RECURSIVE Concat(_)
Concat(q) == IF q = <<>> THEN <<>> ELSE Head(q) \o Concat(Tail(q))

ChunkEvents(fragments) ==
  [k \in 1..Len(fragments) |-> <<"chunk", fragments[k]>>]

\* C28: fragments are surfaced incrementally.  While a call is reading, the
\* onChunk calls made so far are exactly one per delta event with non-empty
\* content decoded so far, in arrival order, none is ever retracted, and the
\* displayed accumulated text is the concatenation of the fragments of those
\* calls; the terminal callback is the last callback of the turn, after all
\* the onChunk calls.
C28_SurfacedIncrementally ==
  [][\A i \in DOMAIN calls :
       /\ (Len(calls') = Len(calls) /\ calls'[i].phase = "read")
            => LET F == ExpectedFragments(calls'[i].script,
                                          Len(Delivered(calls'[i])))
               IN  /\ calls'[i].dec.events = ChunkEvents(F)
                   /\ calls'[i].dec.fullResponse = Concat(F)
                   /\ Len(calls[i].dec.events) <= Len(F)
                   /\ SubSeq(ChunkEvents(F), 1, Len(calls[i].dec.events))
                        = calls[i].dec.events
       /\ (calls[i].phase = "read" /\ Len(calls') < Len(calls))
            => LET n == Len(lastTurn'.events)
               IN  /\ n >= 1 + Len(calls[i].dec.events)
                   /\ SubSeq(lastTurn'.events, 1, Len(calls[i].dec.events))
                        = calls[i].dec.events
                   /\ \A k \in 1..(n - 1) : lastTurn'.events[k][1] = "chunk"
                   /\ lastTurn'.events[n] \in {<<"complete">>, <<"error">>}
                   /\ Completes(i)
                        => SubSeq(lastTurn'.events, 1, n - 1) =
                             ChunkEvents(ExpectedFragments(calls[i].script,
                               Len(WireText(calls[i].script, calls[i].cut))))]_vars

\* two fragments are displayed while the source still has text to deliver
C28_Witness ==
  \E i \in DOMAIN calls :
    /\ calls[i].phase = "read"
    /\ calls[i].rest # <<>>
    /\ calls[i].dec.events = << <<"chunk", <<"A">> >>, <<"chunk", <<"B">> >> >>
    /\ calls[i].dec.fullResponse = <<"A", "B">>

AssistantCount(h) == Cardinality({k \in DOMAIN h : h[k].role = "assistant"})

Terminal == {<<"complete">>, <<"error">>}

\* C29: every call of streamMessage ends with exactly one terminal callback.
\* Callbacks are made only by a pending call (a new submit starts with none
\* made); the step that makes the
\* terminal callback ends the call, so nothing is called after it; the
\* callbacks of an ended call hold exactly one terminal one, in last place
\* (onComplete or onError, never both); and an assistant message is added
\* only by that step, one message and only if the callback is onComplete.
C29_OneTerminalCallback ==
  [][/\ (lastTurn' # lastTurn /\ lastTurn' # NoTurn) => Len(calls') < Len(calls)
     /\ Len(calls') >= Len(calls)
          => \A m \in MASTERS :
               AssistantCount(GetCurrentMessages(conversations', m))
                 = AssistantCount(GetCurrentMessages(conversations, m))
     /\ Len(calls') < Len(calls)
          => /\ \E i \in DOMAIN calls : calls' = RemoveAt(calls, i)
             /\ LET ev == lastTurn'.events
                IN  /\ ev # <<>>
                    /\ {k \in DOMAIN ev : ev[k] \in Terminal} = {Len(ev)}
                    /\ ev[Len(ev)] = <<lastTurn'.outcome>>
             /\ \A m \in MASTERS :
                  AssistantCount(GetCurrentMessages(conversations', m))
                    = AssistantCount(GetCurrentMessages(conversations, m))
                       + (IF m = currentMaster /\ lastTurn'.outcome = "complete"
                          THEN 1 ELSE 0)]_vars

\* a stream with two [DONE] lines ended with one onComplete and one assistant
\* message, and no call is pending
C29_Witness ==
  /\ lastTurn.script = <<"deltaA", "done", "deltaB", "done">>
  /\ lastTurn.events = << <<"chunk", <<"A">> >>, <<"complete">> >>
  /\ calls = <<>>
  /\ AssistantCount(GetCurrentMessages(conversations, currentMaster)) = 1

\* C26: page navigation preserves conversations.  A step that changes the
\* page (to another page, or back to chat, also through an unknown route)
\* changes no master's history, nothing of the stored text and nothing of a
\* turn in flight; and a turn that completes while another page is shown is
\* committed to the history like any other.
C26_NavigationPreserves ==
  [][/\ page' # page
          => UNCHANGED <<currentMaster, conversations, storage, isStreaming, calls>>
     /\ \A i \in DOMAIN calls :
          (Completes(i) /\ page # "chat")
            => /\ page' = page
               /\ GetCurrentMessages(conversations', currentMaster) =
                    Append(GetCurrentMessages(conversations, currentMaster),
                           Message("assistant", lastTurn'.fullResponse))]_vars

\* the settings page is shown while a turn is in flight, its first fragment
\* decoded and its user message in the history
C26_Witness ==
  /\ page = "settings"
  /\ isStreaming
  /\ \E i \in DOMAIN calls :
       /\ calls[i].phase = "read"
       /\ calls[i].dec.fullResponse # <<>>
  /\ GetCurrentMessages(conversations, currentMaster) # <<>>

\* C30 (as claimed): in every master's history each assistant message is
\* immediately preceded by a user message
C30_AssistantFollowsUser ==
  \A m \in MASTERS :
    LET h == GetCurrentMessages(conversations, m)
    IN  \A k \in DOMAIN h :
          h[k].role = "assistant" => k > 1 /\ h[k - 1].role = "user"

\* C23 (as claimed): the sequence handed to the FeedbackModal is a snapshot:
\* while the modal is open its messages are what they were when
\* getCurrentMessages returned them
C23_SnapshotUnchanged ==
  modal = "feedback" => FeedbackMessages = feedback.taken

\* the stored item decodes to exactly the conversations in memory
StoredIsMemory(st, conv) == st.has /\ ParseStored(st.value) = conv

\* C31: after an append or a confirmed clear of the current master whose
\* storage write succeeds, the value stored under 'masterConversations'
\* decodes to exactly the conversations in memory, for all masters.  A step
\* of the running page that changes a history either leaves the stored item
\* as it was (the write failed) or leaves an item that decodes to the
\* conversations in memory; and every step that writes a new item writes
\* one that decodes to the conversations in memory.
C31_StoredDecodesToMemory ==
  [][/\ (conversations' # conversations /\ lastCall'.op # "reload")
          => \/ storage' = storage
             \/ StoredIsMemory(storage', conversations')
     /\ (storage' # storage /\ storage'.has)
          => StoredIsMemory(storage', conversations')]_vars

\* one master's history was cleared and written while the other master has
\* a history: the stored item holds both, as in memory
C31_Witness ==
  /\ lastCall.op = "clearConversation"
  /\ lastCall.outcome = "cleared"
  /\ StoredIsMemory(storage, conversations)
  /\ GetCurrentMessages(conversations, currentMaster) = <<>>
  /\ \E m \in MASTERS : GetCurrentMessages(conversations, m) # <<>>

\* C32: a submit whose input is empty or only whitespace is ignored: it
\* appends no message, issues no request and leaves isStreaming as it was
\* (false, when no turn is in flight); an accepted submit appends, as the
\* user message, the input with its surrounding whitespace trimmed, and
\* sends that text.
C32_BlankIgnoredInputTrimmed ==
  [][/\ \A input \in Inputs :
          SendMessage(input, CtlScripts, {0}, MaxSubmits)
            => IF Trim(input) = <<>>
               THEN UNCHANGED <<conversations, storage, calls, isStreaming,
                                submits, appended>>
               ELSE \/ isStreaming /\ UNCHANGED <<conversations, calls>>
                    \/ /\ ~isStreaming
                       /\ GetCurrentMessages(conversations', currentMaster) =
                            Append(GetCurrentMessages(conversations, currentMaster),
                                   Message("user", Trim(input)))
                       /\ Len(calls') = Len(calls) + 1
                       /\ calls'[Len(calls')].request.messages =
                            GetCurrentMessages(conversations', currentMaster)
     /\ (lastCall' # lastCall /\ lastCall'.op = "sendMessage" /\ lastCall'.blank)
          => UNCHANGED <<conversations, storage, calls, isStreaming, submits>>
     /\ submits' > submits
          => LET h == GetCurrentMessages(conversations', currentMaster)
                 c == h[Len(h)].content
             IN  /\ h[Len(h)].role = "user"
                 /\ c # <<>>
                 /\ c[1] \notin Whitespace /\ c[Len(c)] \notin Whitespace
                 /\ \E input \in Inputs : c = Trim(input)]_vars

\* after a completed turn whose user message is stored trimmed, a blank
\* submit was ignored: nothing in flight, the history as it was
C32_Witness ==
  /\ lastCall.op = "sendMessage"
  /\ lastCall.outcome = "ignored"
  /\ lastCall.blank
  /\ ~isStreaming
  /\ calls = <<>>
  /\ GetCurrentMessages(conversations, currentMaster) =
       << Message("user", <<"q">>), Message("assistant", <<"A">>) >>

\* some master's history loses messages in the step
Shrinks ==
  \E m \in MASTERS :
    Len(GetCurrentMessages(conversations', m)) < Len(GetCurrentMessages(conversations, m))

\* cancelling or dismissing the clear dialog changes no history and not the
\* stored value, and while the dialog is open only its confirm button
\* removes messages
C33_OnlyConfirmClears ==
  [][/\ (modal = "clear" /\ CancelModal) => UNCHANGED <<conversations, storage>>
     /\ (modal = "clear" /\ Shrinks /\ lastCall'.op # "reload") => ConfirmClear]_vars

\* C33 (as claimed): clearing needs confirmation, and the confirm button
\* clears once: dismissing the dialog changes nothing, only the confirm
\* button clears, and the confirmed clear closes the dialog, so that the
\* same dialog cannot clear a second time
C33_ConfirmClearsOnce ==
  [][/\ (modal = "clear" /\ CancelModal) => UNCHANGED <<conversations, storage>>
     /\ (modal = "clear" /\ Shrinks /\ lastCall'.op # "reload") => ConfirmClear
     /\ ConfirmClear => modal' = "none"]_vars

\* C34: the list of saved conversations is capped.  Starting from no list,
\* after any saveConversation and deleteConversationLocal calls the list
\* holds at most 50 entries, newest first; a save puts the conversation in
\* front, and a save into a full list evicts the last entry, which is the
\* oldest one, and keeps all the others.
C34_CappedNewestFirst ==
  [][LET list == GetAllConversationsLocal(localConversations)
         after == GetAllConversationsLocal(localConversations')
     IN  /\ Len(after) <= MaxLocalConversations
         /\ \A j, k \in DOMAIN after : j < k => after[j].at > after[k].at
         /\ \A c \in NewConversations(list) :
              (SaveConversation(c) /\ localConversations' # localConversations)
                => /\ after[1] = c
                   /\ IF Len(list) < MaxLocalConversations
                      THEN after = <<c>> \o list
                      ELSE /\ after = <<c>> \o SubSeq(list, 1, Len(list) - 1)
                           /\ \A k \in DOMAIN list :
                                list[Len(list)].at <= list[k].at
                           /\ list[Len(list)] \notin Range(after)]_vars

\* the list is full after 51 saves: the first conversation saved was evicted
C34_Witness ==
  LET list == GetAllConversationsLocal(localConversations)
  IN  /\ Len(list) = MaxLocalConversations
      /\ list[1].at = MaxLocalConversations + 1
      /\ list[Len(list)].at = 2

\* C35: a feedback record is stored locally only after the remote
\* submission succeeded.  The local feedback list changes only in the step
\* in which a pending submitFeedback call resolved, by one record; when the
\* call fails the list is as it was, the modal is as it was (open, if it was
\* open) and the submit button is enabled again; the rating of the modal
\* and the rating sent are integers from 1 to 10.
C35_StoredOnlyAfterSuccess ==
  [][/\ localFeedbacks' # localFeedbacks
          => /\ feedback.submit = "pending"
             /\ SubmitOk
             /\ lastCall'.outcome = "stored"
             /\ GetAllFeedbacks(localFeedbacks') =
                  Append(GetAllFeedbacks(localFeedbacks), [rating |-> feedback.rating])
     /\ SubmitFail
          => /\ localFeedbacks' = localFeedbacks
             /\ modal' = modal
             /\ modal = "feedback" => feedback'.submit = "idle"
     /\ feedback' # NoFeedback => feedback'.rating \in 1..RatingCount
     /\ \A b \in 1..RatingCount : SetRating(b) => feedback'.rating = b
     /\ feedback'.submit = "pending"
          => /\ feedback'.sent \in 1..RatingCount
             /\ feedback'.sent \in Int
     /\ \A k \in DOMAIN GetAllFeedbacks(localFeedbacks') :
          GetAllFeedbacks(localFeedbacks')[k].rating \in 1..RatingCount]_vars

\* a submission with the rating 10 failed: nothing is stored, the modal is
\* open and its submit button enabled
C35_Witness ==
  /\ lastCall.op = "submitFeedback"
  /\ lastCall.outcome = "failed"
  /\ modal = "feedback"
  /\ feedback.submit = "idle"
  /\ feedback.rating = 10
  /\ localFeedbacks = Absent

====
